---- MODULE Spec2Model ----
(***************************************************************************)
(* Misinformation spread simulator (truth-weaver): the simulation engine   *)
(* of lib/simulation (generateNetwork, simulationTick, applyFactCheck,     *)
(* applyAwarenessCampaign, getStats, applyForces) as a state machine.      *)
(*                                                                         *)
(* Numbers.  Coordinates and velocities are kept in tenths of a pixel      *)
(* (fixed point, divisions round down).  A call of Math.random() is a      *)
(* choice: where its value is used in arithmetic it is one of the          *)
(* fractions k/Steps, and where it is only compared with a threshold the   *)
(* choice is over the outcomes of the comparison (Chance).                 *)
(*                                                                         *)
(* Objects.  A node array is a function from the ids 0..n-1 to node        *)
(* records.  The working memory of one call (Mem) keeps the input objects  *)
(* and the array the call builds side by side, so that a write through an  *)
(* alias of an input object is visible as a change of the input.           *)
(***************************************************************************)
EXTENDS Integers, Sequences, FiniteSets, TLC

VARIABLES
    config,      \* the SimConfig of the run
    nodes,       \* the current snapshot: the node array last returned
    edges,       \* the edge list returned by generateNetwork
    tick,        \* the tick counter: the simulationTick calls made since the network
                 \* was generated
    passes,      \* applyForces calls made so far
    op,          \* the last call: "none", "generateNetwork", "simulationTick", ...
    arg,         \* its scalar argument (tick or node id), -1 when it has none
    input,       \* the node array passed to the last call, as it was before the call
    inputAfter,  \* the same objects as the call left them
    crashed,     \* the last call threw (TypeError) instead of returning
    draws        \* the k of the degree draw k/RandSteps of each node, in id order,
                 \* after generateNetwork returned; <<>> after any other call

(* The state of the page that drives the engine (pages/Index) *)
VARIABLES
    isRunning,      \* the run is started
    speed,          \* the speed the slider is set to
    history,        \* the stats snapshots kept for the chart
    factCheckMode,  \* the next click on a node fact-checks it
    interval        \* what the interval effect saw when it last ran: the values of
                    \* its dependencies isRunning, speed and tick.  The interval is
                    \* registered if it saw isRunning, and its callback holds that tick.

page == <<isRunning, speed, history, factCheckMode, interval>>

vars == <<config, nodes, edges, tick, passes, op, arg, input, inputAfter, crashed, draws,
          isRunning, speed, history, factCheckMode, interval>>

----------------------------------------------------------------------------
(* Bounds of the model *)

MaxNodes == 3        \* largest nodeCount of Spec, SpecAnyId and SpecGen
MaxTick == 2         \* simulationTick is called with ticks 1..MaxTick
MaxPasses == 1       \* applyForces calls per run
MaxDensity == 2      \* connectionDensity is MaxDensity in a run, 0..MaxDensity in SpecGen
MaxRecovery == 2     \* recoveryTime ranges over 0..MaxRecovery in a run
XSteps == 3          \* Math.random() is k/XSteps when it sets x
YSteps == 1          \* Math.random() is k/YSteps when it sets y
RandSteps == 4       \* Math.random() is k/RandSteps when it perturbs the degree
MaxCampaignNodes == 6  \* nodeCount of the networks of SpecCampaign
MaxSpeed == 2        \* the speed slider ranges over 1..MaxSpeed
MaxPageTick == 3     \* the tick counter of the page reaches at most MaxPageTick
PageNodes == 2       \* nodeCount of the networks of the page
MaxHistoryTick == 202  \* the tick counter reaches at most MaxHistoryTick in SpecHistory

(* Program constants *)

CANVAS_W == 700
CANVAS_H == 500
GenPadding == 60
ForcePadding == 40
HistoryLimit == 200

----------------------------------------------------------------------------
(* Helpers *)

Max(a, b) == IF a >= b THEN a ELSE b
Min(a, b) == IF a <= b THEN a ELSE b

Ids(ns) == DOMAIN ns
Length(ns) == Cardinality(DOMAIN ns)
Includes(s, e) == \E k \in 1..Len(s) : s[k] = e
(* the orders in which the elements of S can be listed *)
RECURSIVE Perms(_)
Perms(S) == IF S = {} THEN {<<>>} ELSE UNION {{<<e>> \o s : s \in Perms(S \ {e})} : e \in S}

(* Math.random() < p : the outcomes the comparison can have, p given as    *)
(* a percentage.  Math.random() is in [0, 1).                               *)
Chance(pct) == IF pct <= 0 THEN {FALSE} ELSE IF pct >= 100 THEN {TRUE} ELSE BOOLEAN

NodeStates == {"healthy", "infected", "recovered", "aware"}

----------------------------------------------------------------------------
(* generateNetwork *)

(* padding + Math.random() * (extent - padding * 2), in tenths of a pixel *)
RandomCoord(k, steps, extent) == 10 * GenPadding + (k * 10 * (extent - GenPadding * 2)) \div steps

NewNode(i, kx, ky) ==
    [id |-> i, x |-> RandomCoord(kx, XSteps, CANVAS_W), y |-> RandomCoord(ky, YSteps, CANVAS_H),
     vx |-> 0, vy |-> 0, state |-> "healthy", infectedAt |-> -1, connections |-> <<>>]

(* Math.hypot(n.x - nodes[i].x, n.y - nodes[i].y), squared: the sort and    *)
(* the test dist = 0 need no more than the order of the distances.          *)
Dist2(ns, i, j) == (ns[j].x - ns[i].x) * (ns[j].x - ns[i].x) + (ns[j].y - ns[i].y) * (ns[j].y - ns[i].y)

(* nodes.map(...).filter(d => d.j !== i).sort((a, b) => a.dist - b.dist):   *)
(* the other ids by ascending distance; the sort is stable, so equal        *)
(* distances keep the id order.                                             *)
Closer(ns, i, a, b) == Dist2(ns, i, a) < Dist2(ns, i, b) \/ (Dist2(ns, i, a) = Dist2(ns, i, b) /\ a < b)
Distances(ns, i) ==
    LET others == Ids(ns) \ {i}
        rank(j) == 1 + Cardinality({k \in others : Closer(ns, i, k, j)})
    IN  [p \in 1..Cardinality(others) |-> CHOOSE j \in others : rank(j) = p]

(* Math.max(1, Math.floor(connectionDensity + (Math.random() - 0.5) * 2))   *)
(* for Math.random() = k/RandSteps                                          *)
TargetConns(density, k) == Max(1, density + ((2 * k - RandSteps) \div RandSteps))

(* Math.random() < Math.exp(-dist / (maxDist * 0.15)): the exponential is 1 *)
(* at distance 0 and strictly between 0 and 1 at any other distance.        *)
ProbOutcomes(d2) == IF d2 = 0 THEN Chance(100) ELSE Chance(50)

(* Fault seeded to test C5: the edge is recorded at its source only. *)
PushEdgeOneWay(g, i, j) ==
    [nodes |-> [g.nodes EXCEPT ![i].connections = Append(@, j)],
     edges |-> Append(g.edges, [source |-> i, target |-> j])]

(* lines 79-81: both connection lists and the edge list *)
PushEdge(g, i, j) ==
    [nodes |-> [g.nodes EXCEPT ![i].connections = Append(@, j),
                               ![j].connections = Append(@, i)],
     edges |-> Append(g.edges, [source |-> i, target |-> j])]

(* Fault seeded to test C6: the first candidate is not accepted             *)
(* unconditionally.                                                         *)
RECURSIVE EdgeWalkNoFirst(_, _, _, _, _, _)
EdgeWalkNoFirst(g, i, dists, k, added, targetConns) ==
    IF k > Len(dists) \/ added >= targetConns THEN {g}
    ELSE LET j == dists[k] IN
         IF Includes(g.nodes[i].connections, j)
         THEN EdgeWalkNoFirst(g, i, dists, k + 1, added, targetConns)
         ELSE UNION {IF hit
                     THEN EdgeWalkNoFirst(PushEdge(g, i, j), i, dists, k + 1, added + 1, targetConns)
                     ELSE EdgeWalkNoFirst(g, i, dists, k + 1, added, targetConns)
                     : hit \in ProbOutcomes(Dist2(g.nodes, i, j))}

(* Fault seeded to test C20: a candidate already connected is not skipped. *)
RECURSIVE EdgeWalkRepeats(_, _, _, _, _, _)
EdgeWalkRepeats(g, i, dists, k, added, targetConns) ==
    IF k > Len(dists) \/ added >= targetConns THEN {g}
    ELSE LET j == dists[k] IN
         UNION {IF hit \/ added = 0
                THEN EdgeWalkRepeats(PushEdge(g, i, j), i, dists, k + 1, added + 1, targetConns)
                ELSE EdgeWalkRepeats(g, i, dists, k + 1, added, targetConns)
                : hit \in ProbOutcomes(Dist2(g.nodes, i, j))}

(* lines 73-84: the walk over the sorted candidates of node i from position *)
(* k on; the set of graphs the random draws can produce.                    *)
RECURSIVE EdgeWalk(_, _, _, _, _, _)
EdgeWalk(g, i, dists, k, added, targetConns) ==
    IF k > Len(dists) \/ added >= targetConns THEN {g}
    ELSE LET j == dists[k] IN
         IF Includes(g.nodes[i].connections, j)
         THEN EdgeWalk(g, i, dists, k + 1, added, targetConns)
         ELSE UNION {IF hit \/ added = 0
                     THEN EdgeWalk(PushEdge(g, i, j), i, dists, k + 1, added + 1, targetConns)
                     ELSE EdgeWalk(g, i, dists, k + 1, added, targetConns)
                     : hit \in ProbOutcomes(Dist2(g.nodes, i, j))}

(* lines 64-85: the loop over the nodes from node i on; g.draws keeps the   *)
(* degree draws made so far.                                                *)
RECURSIVE EdgeLoop(_, _, _, _)
EdgeLoop(g, i, cfg, ks) ==
    IF i >= cfg.nodeCount THEN {g}
    ELSE UNION {UNION {EdgeLoop([nodes |-> g2.nodes, edges |-> g2.edges,
                                 draws |-> Append(g.draws, k)], i + 1, cfg, ks)
                       : g2 \in EdgeWalk(g, i, Distances(g.nodes, i), 1, 0,
                                         TargetConns(cfg.connectionDensity, k))}
                : k \in ks}

(* lines 88-92: the first initialInfected ids of the shuffle are infected;  *)
(* shuffled[i] is undefined from i = nodeCount on, and nodes[undefined]     *)
(* .state = ... throws.                                                     *)
SeedThrows(cfg) == cfg.initialInfected > cfg.nodeCount

(* Fault seeded to test C15: the seeding loop stops one id short. *)
SetInitialInfectedOneShort(ns, cfg, shuffled) ==
    [i \in Ids(ns) |->
        IF \E p \in 1..Min(cfg.initialInfected - 1, cfg.nodeCount) : shuffled[p] = i
        THEN [ns[i] EXCEPT !.state = "infected", !.infectedAt = 0]
        ELSE ns[i]]

SetInitialInfected(ns, cfg, shuffled) ==
    [i \in Ids(ns) |->
        IF \E p \in 1..Min(cfg.initialInfected, cfg.nodeCount) : shuffled[p] = i
        THEN [ns[i] EXCEPT !.state = "infected", !.infectedAt = 0]
        ELSE ns[i]]

(* The (nodes, edges) pairs a call that returns can return when            *)
(* Math.random() draws from xs/XSteps for x, from ys/YSteps for y and from  *)
(* ks/RandSteps for the degree, each with the degree draws that led to it.  *)
generateNetworkDrawing(cfg, xs, ys, ks) ==
    LET ids == 0..(cfg.nodeCount - 1) IN
    UNION {
      UNION {
        {[nodes |-> SetInitialInfected(g.nodes, cfg, shuffled), edges |-> g.edges,
          draws |-> g.draws]
         : shuffled \in Perms(ids)}
        : g \in EdgeLoop([nodes |-> [i \in ids |-> NewNode(i, kx[i], ky[i])], edges |-> <<>>,
                          draws |-> <<>>], 0, cfg, ks)}
      : kx \in [ids -> xs], ky \in [ids -> ys]}

generateNetwork(cfg) ==
    generateNetworkDrawing(cfg, 0..(XSteps - 1), 0..(YSteps - 1), 0..(RandSteps - 1))

----------------------------------------------------------------------------
(* getStats *)

(* Fault seeded to test C1: the aware count repeats the recovered filter. *)
getStatsRepeatedFilter(ns, t) ==
    [tick |-> t,
     healthy |-> Cardinality({i \in Ids(ns) : ns[i].state = "healthy"}),
     infected |-> Cardinality({i \in Ids(ns) : ns[i].state = "infected"}),
     recovered |-> Cardinality({i \in Ids(ns) : ns[i].state = "recovered"}),
     aware |-> Cardinality({i \in Ids(ns) : ns[i].state = "recovered"})]

CountState(ns, s) == Cardinality({i \in Ids(ns) : ns[i].state = s})
getStats(ns, t) ==
    [tick |-> t,
     healthy |-> CountState(ns, "healthy"),
     infected |-> CountState(ns, "infected"),
     recovered |-> CountState(ns, "recovered"),
     aware |-> CountState(ns, "aware")]

----------------------------------------------------------------------------
(* Working memory of one call *)

(* Fault seeded to test C3: the call works on the input objects themselves  *)
(* (const updated = nodes).                                                 *)
CopyNodesShared(ns) == [inp |-> ns, upd |-> ns, alias |-> TRUE]

(* nodes.map(n => ({ ...n })): a new array of new objects with the fields   *)
(* of the input objects.  inp is the input array, upd the array the call    *)
(* works on; alias tells whether upd[i] is the same object as inp[i].       *)
CopyNodes(ns) == [inp |-> ns, upd |-> ns, alias |-> FALSE]

(* updated[i].f = v *)
Write(m, i, f, v) ==
    [m EXCEPT !.upd[i][f] = v,
              !.inp[i][f] = IF m.alias THEN v ELSE @]

----------------------------------------------------------------------------
(* simulationTick *)

(* Fault seeded to test C26: the infection is not stamped. *)
InfectNoStamp(m, j, t) == Write(m, j, "state", "infected")

(* lines 111-112 *)
Infect(m, j, t) == Write(Write(m, j, "state", "infected"), j, "infectedAt", t)

(* Fault seeded to test C2: a neighbor is infected whatever its state. *)
RECURSIVE SpreadLoopAnyState(_, _, _, _, _)
SpreadLoopAnyState(m, i, k, cfg, t) ==
    IF k > Len(m.upd[i].connections) THEN {m}
    ELSE LET neighborId == m.upd[i].connections[k] IN
         UNION {SpreadLoopAnyState(IF hit THEN Infect(m, neighborId, t) ELSE m, i, k + 1, cfg, t)
                : hit \in Chance(cfg.spreadProbability)}

(* lines 107-115: the neighbors of node i from position k of its            *)
(* connection list on; the memories the random draws can produce.           *)
RECURSIVE SpreadLoop(_, _, _, _, _)
SpreadLoop(m, i, k, cfg, t) ==
    IF k > Len(m.upd[i].connections) THEN {m}
    ELSE LET neighborId == m.upd[i].connections[k] IN
         IF m.upd[neighborId].state = "healthy"
         THEN UNION {SpreadLoop(IF hit THEN Infect(m, neighborId, t) ELSE m, i, k + 1, cfg, t)
                     : hit \in Chance(cfg.spreadProbability)}
         ELSE SpreadLoop(m, i, k + 1, cfg, t)

(* Fault seeded to test C4: recovery one tick early. *)
CheckRecoveryEarly(m, i, cfg, t) ==
    IF t - m.upd[i].infectedAt >= cfg.recoveryTime - 1
    THEN Write(m, i, "state", "recovered")
    ELSE m

(* Fault seeded to test C12: recovery one tick late. *)
CheckRecoveryLate(m, i, cfg, t) ==
    IF t - m.upd[i].infectedAt > cfg.recoveryTime
    THEN Write(m, i, "state", "recovered")
    ELSE m

(* Fault seeded to test C21: recovery clears infectedAt. *)
CheckRecoveryResets(m, i, cfg, t) ==
    IF t - m.upd[i].infectedAt >= cfg.recoveryTime
    THEN Write(Write(m, i, "state", "recovered"), i, "infectedAt", -1)
    ELSE m

(* lines 117-119 *)
CheckRecovery(m, i, cfg, t) ==
    IF t - m.upd[i].infectedAt >= cfg.recoveryTime
    THEN Write(m, i, "state", "recovered")
    ELSE m

(* Fault seeded to test C16: the loop visits the nodes from the last id     *)
(* down.                                                                    *)
RECURSIVE TickLoopDescending(_, _, _, _)
TickLoopDescending(m, i, cfg, t) ==
    IF i >= Length(m.upd) THEN {m}
    ELSE LET v == Length(m.upd) - 1 - i IN
         IF m.upd[v].state = "infected"
         THEN UNION {TickLoopDescending(CheckRecovery(m2, v, cfg, t), i + 1, cfg, t)
                     : m2 \in SpreadLoop(m, v, 1, cfg, t)}
         ELSE TickLoopDescending(m, i + 1, cfg, t)

(* Fault seeded to test C18: recovered and aware nodes transmit too. *)
RECURSIVE TickLoopImmuneSources(_, _, _, _)
TickLoopImmuneSources(m, i, cfg, t) ==
    IF i >= Length(m.upd) THEN {m}
    ELSE IF m.upd[i].state = "infected"
         THEN UNION {TickLoopImmuneSources(CheckRecovery(m2, i, cfg, t), i + 1, cfg, t)
                     : m2 \in SpreadLoop(m, i, 1, cfg, t)}
         ELSE IF m.upd[i].state # "healthy"
         THEN UNION {TickLoopImmuneSources(m2, i + 1, cfg, t) : m2 \in SpreadLoop(m, i, 1, cfg, t)}
         ELSE TickLoopImmuneSources(m, i + 1, cfg, t)

(* lines 104-121: the loop over the working copy from node i on *)
RECURSIVE TickLoop(_, _, _, _)
TickLoop(m, i, cfg, t) ==
    IF i >= Length(m.upd) THEN {m}
    ELSE IF m.upd[i].state = "infected"
         THEN UNION {TickLoop(CheckRecovery(m2, i, cfg, t), i + 1, cfg, t)
                     : m2 \in SpreadLoop(m, i, 1, cfg, t)}
         ELSE TickLoop(m, i + 1, cfg, t)

(* The memories in which a call can end; its result is their upd. *)
simulationTick(ns, cfg, t) == TickLoop(CopyNodes(ns), 0, cfg, t)

----------------------------------------------------------------------------
(* applyFactCheck *)

(* updated[nodeId] is undefined for an id that is no index of the array,    *)
(* and node.state then throws.                                              *)
FactCheckThrows(ns, nodeId) == nodeId \notin Ids(ns)

(* Fault seeded to test C9: the target recovers whatever its state. *)
RecoverTargetAnyState(m, nodeId) == Write(m, nodeId, "state", "recovered")

(* lines 129-131 *)
RecoverTarget(m, nodeId) ==
    IF m.upd[nodeId].state = "infected"
    THEN Write(m, nodeId, "state", "recovered")
    ELSE m

(* Fault seeded to test C23: a neighbor can become aware whatever its       *)
(* state.                                                                   *)
RECURSIVE ImmunizeLoopAnyState(_, _, _)
ImmunizeLoopAnyState(m, nodeId, k) ==
    IF k > Len(m.upd[nodeId].connections) THEN {m}
    ELSE LET nId == m.upd[nodeId].connections[k] IN
         UNION {ImmunizeLoopAnyState(IF hit THEN Write(m, nId, "state", "aware") ELSE m, nodeId, k + 1)
                : hit \in Chance(50)}

(* lines 133-137: Math.random() is drawn only for a healthy neighbor *)
RECURSIVE ImmunizeLoop(_, _, _)
ImmunizeLoop(m, nodeId, k) ==
    IF k > Len(m.upd[nodeId].connections) THEN {m}
    ELSE LET nId == m.upd[nodeId].connections[k] IN
         IF m.upd[nId].state = "healthy"
         THEN UNION {ImmunizeLoop(IF hit THEN Write(m, nId, "state", "aware") ELSE m, nodeId, k + 1)
                     : hit \in Chance(50)}
         ELSE ImmunizeLoop(m, nodeId, k + 1)

applyFactCheck(ns, nodeId) == ImmunizeLoop(RecoverTarget(CopyNodes(ns), nodeId), nodeId, 1)

----------------------------------------------------------------------------
(* applyAwarenessCampaign *)

(* Fault seeded to test C10: the count is rounded down. *)
CampaignCountFloor(h) == h \div 5

(* Math.ceil(healthyNodes.length * 0.2); the product in doubles never       *)
(* exceeds an integer it should equal, so this is the ceiling of h / 5.     *)
CampaignCount(h) == (h + 4) \div 5

RECURSIVE MarkAware(_, _, _, _)
MarkAware(m, shuffled, i, n) ==
    IF i > n THEN m
    ELSE MarkAware(Write(m, shuffled[i], "state", "aware"), shuffled, i + 1, n)

(* Fault seeded to test C22: the random sort is applied to updated itself,  *)
(* so the array returned is in the shuffled order.                          *)
applyAwarenessCampaignSortsAll(ns) ==
    LET m == CopyNodes(ns)
        healthyNodes == {i \in Ids(m.upd) : m.upd[i].state = "healthy"}
        count == CampaignCount(Cardinality(healthyNodes))
        marked == {MarkAware(m, shuffled, 1, Min(count, Cardinality(healthyNodes)))
                   : shuffled \in Perms(healthyNodes)}
    IN  UNION {{[mk EXCEPT !.upd = [k \in Ids(ns) |-> mk.upd[order[k + 1]]]]
                : order \in Perms(Ids(ns))} : mk \in marked}

(* healthyNodes holds the healthy objects of updated; the sort with a       *)
(* random comparator leaves them in some order.                             *)
applyAwarenessCampaign(ns) ==
    LET m == CopyNodes(ns)
        healthyNodes == {i \in Ids(m.upd) : m.upd[i].state = "healthy"}
        count == CampaignCount(Cardinality(healthyNodes))
    IN  {MarkAware(m, shuffled, 1, Min(count, Cardinality(healthyNodes)))
         : shuffled \in Perms(healthyNodes)}

----------------------------------------------------------------------------
(* applyForces, in tenths of a pixel *)

Abs(a) == IF a >= 0 THEN a ELSE -a

(* the integer square root of n, by Newton's iteration from x >= sqrt(n) *)
RECURSIVE SqrtFrom(_, _)
SqrtFrom(n, x) ==
    LET y == (x + n \div x) \div 2 IN
    IF y >= x THEN x ELSE SqrtFrom(n, y)

(* Math.hypot(dx, dy) *)
Hypot(dx, dy) == IF dx = 0 /\ dy = 0 THEN 0 ELSE SqrtFrom(dx * dx + dy * dy, Abs(dx) + Abs(dy))

(* nodes.map(n => ({ ...n, vx: 0, vy: 0 })) *)
CopyNodesAtRest(ns) ==
    [inp |-> ns, upd |-> [i \in Ids(ns) |-> [ns[i] EXCEPT !.vx = 0, !.vy = 0]], alias |-> FALSE]

AddVelocity(m, i, fx, fy) ==
    Write(Write(m, i, "vx", m.upd[i].vx + fx), i, "vy", m.upd[i].vy + fy)

(* lines 171-180 *)
Repel(m, i, j) ==
    LET dx == m.upd[j].x - m.upd[i].x
        dy == m.upd[j].y - m.upd[i].y
        dist == Max(Hypot(dx, dy), 10)
        force == 800000 \div (dist * dist)
        fx == (dx * force) \div dist
        fy == (dy * force) \div dist
    IN  AddVelocity(AddVelocity(m, i, -fx, -fy), j, fx, fy)

(* lines 169-182: the pairs (i, j), j > i, from (i, j) on *)
RECURSIVE RepulsionLoop(_, _, _)
RepulsionLoop(m, i, j) ==
    IF i >= Length(m.upd) THEN m
    ELSE IF j >= Length(m.upd) THEN RepulsionLoop(m, i + 1, i + 2)
    ELSE RepulsionLoop(Repel(m, i, j), i, j + 1)

(* lines 186-197 *)
Attract(m, edge) ==
    LET a == edge.source
        b == edge.target
        dx == m.upd[b].x - m.upd[a].x
        dy == m.upd[b].y - m.upd[a].y
        dist == Hypot(dx, dy)
        force == (dist - 800) \div 100
        fx == (dx * force) \div Max(dist, 10)
        fy == (dy * force) \div Max(dist, 10)
    IN  AddVelocity(AddVelocity(m, a, fx, fy), b, -fx, -fy)

RECURSIVE AttractionLoop(_, _, _)
AttractionLoop(m, es, k) ==
    IF k > Len(es) THEN m ELSE AttractionLoop(Attract(m, es[k]), es, k + 1)

Clamp(lo, hi, v) == Max(lo, Min(hi, v))

(* lines 201-214 for node i: center gravity, then the damped move and the   *)
(* clamp.  Both loops touch one node at a time, so they are one pass here.  *)
MoveNode(m, i, width, height) ==
    LET vx == m.upd[i].vx + ((5 * width - m.upd[i].x) * 2) \div 1000
        vy == m.upd[i].vy + ((5 * height - m.upd[i].y) * 2) \div 1000
        x == Clamp(10 * ForcePadding, 10 * (width - ForcePadding), m.upd[i].x + vx \div 2)
        y == Clamp(10 * ForcePadding, 10 * (height - ForcePadding), m.upd[i].y + vy \div 2)
    IN  Write(Write(Write(Write(m, i, "vx", vx), i, "vy", vy), i, "x", x), i, "y", y)

RECURSIVE MoveLoop(_, _, _, _)
MoveLoop(m, i, width, height) ==
    IF i >= Length(m.upd) THEN m
    ELSE MoveLoop(MoveNode(m, i, width, height), i + 1, width, height)

applyForces(ns, es, width, height) ==
    MoveLoop(AttractionLoop(RepulsionLoop(CopyNodesAtRest(ns), 0, 1), es, 1), 0, width, height)

----------------------------------------------------------------------------
(* Configurations *)

(* The configurations of a run: the epidemic parameters vary. *)
Configs ==
    [nodeCount : 2..MaxNodes,
     connectionDensity : {MaxDensity},
     spreadProbability : {50, 100},
     recoveryTime : 0..MaxRecovery,
     initialInfected : {1}]

(* The configurations of a campaign: a larger population, with no seed,    *)
(* one seed or every node a seed.                                           *)
CampaignConfigs ==
    [nodeCount : {MaxCampaignNodes},
     connectionDensity : {1},
     spreadProbability : {50},
     recoveryTime : {MaxRecovery},
     initialInfected : {0, 1, MaxCampaignNodes}]

(* The configurations of a generation: the network parameters vary. *)
GenConfigs ==
    [nodeCount : 1..MaxNodes,
     connectionDensity : 0..MaxDensity,
     spreadProbability : {50},
     recoveryTime : {MaxRecovery},
     initialInfected : 0..(MaxNodes + 1)]

(* The configurations of a generation on one spot: one node more, so that  *)
(* a node can have more than MaxDensity candidates.                         *)
DegreeConfigs ==
    [nodeCount : {MaxNodes + 1},
     connectionDensity : 0..MaxDensity,
     spreadProbability : {50},
     recoveryTime : {MaxRecovery},
     initialInfected : {0, 1}]

(* The configurations of a call of simulationTick on a given network *)
GivenConfigs ==
    [nodeCount : {MaxNodes},
     connectionDensity : {MaxDensity},
     spreadProbability : {50, 100},
     recoveryTime : 0..MaxRecovery,
     initialInfected : 0..MaxNodes]

NoNodes == [i \in {} |-> 0]

(* The networks on n nodes a caller of simulationTick can hold: edges       *)
(* pushed one after the other as generateNetwork pushes them, each pair of  *)
(* nodes at most once, every node with a connection.  A path of three       *)
(* nodes is what a walk along three nodes of a larger network sees.         *)
RECURSIVE PushEdges(_, _, _)
PushEdges(g, pairs, k) ==
    IF k > Len(pairs) THEN g
    ELSE PushEdges(PushEdge(g, pairs[k][1], pairs[k][2]), pairs, k + 1)

GivenNetworks(n) ==
    LET ids == 0..(n - 1)
        empty == [nodes |-> [i \in ids |-> NewNode(i, 0, 0)], edges |-> <<>>]
        each == {p \in ids \X ids : p[1] < p[2]}
        all == {PushEdges(empty, pairs, 1) : pairs \in UNION {Perms(P) : P \in SUBSET each}}
    IN  {g \in all : \A i \in ids : Len(g.nodes[i].connections) >= 1}

(* The page as mounted: nothing started, the interval effect has run once *)
PageAtRest ==
    /\ isRunning = FALSE
    /\ speed = 1
    /\ history = <<>>
    /\ factCheckMode = FALSE
    /\ interval = [isRunning |-> FALSE, speed |-> 1, tick |-> 0]

Start ==
    /\ PageAtRest
    /\ nodes = NoNodes
    /\ edges = <<>>
    /\ tick = 0
    /\ passes = 0
    /\ op = "none"
    /\ arg = -1
    /\ input = NoNodes
    /\ inputAfter = NoNodes
    /\ crashed = FALSE
    /\ draws = <<>>

Init == config \in Configs /\ Start
InitGen == config \in GenConfigs /\ Start
InitDegree == config \in DegreeConfigs /\ Start

(* After generateNetwork has returned, every Math.random() of the call      *)
(* having been 0 (the nodes on one spot, the least degree targets).         *)
InitCampaign ==
    /\ PageAtRest
    /\ config \in CampaignConfigs
    /\ \E g \in generateNetworkDrawing(config, {0}, {0}, {0}) :
         nodes = g.nodes /\ edges = g.edges /\ draws = g.draws
    /\ tick = 0
    /\ passes = 0
    /\ op = "generateNetwork"
    /\ arg = -1
    /\ input = NoNodes
    /\ inputAfter = NoNodes
    /\ crashed = FALSE

(* A network as given, some of its nodes infected at tick 0 *)
InitGiven ==
    /\ PageAtRest
    /\ config \in GivenConfigs
    /\ \E g \in GivenNetworks(config.nodeCount) :
         \E shuffled \in Perms(Ids(g.nodes)) :
            /\ nodes = SetInitialInfected(g.nodes, config, shuffled)
            /\ edges = g.edges
    /\ tick = 0
    /\ passes = 0
    /\ op = "given"
    /\ arg = -1
    /\ input = NoNodes
    /\ inputAfter = NoNodes
    /\ crashed = FALSE
    /\ draws = <<>>

(* A call returned m: the caller holds m.upd, and the objects it passed     *)
(* are now m.inp.                                                           *)
Returned(m, name, a) ==
    /\ nodes' = m.upd
    /\ input' = nodes
    /\ inputAfter' = m.inp
    /\ op' = name
    /\ arg' = a
    /\ crashed' = FALSE
    /\ draws' = <<>>

Threw(name, a) ==
    /\ input' = nodes
    /\ inputAfter' = nodes
    /\ op' = name
    /\ arg' = a
    /\ crashed' = TRUE
    /\ draws' = <<>>
    /\ UNCHANGED nodes

Running == op # "none" /\ ~crashed

(* generateNetwork, its result one of results *)
GenerateFrom(results) ==
    /\ op = "none"
    /\ IF SeedThrows(config)
       THEN /\ crashed' = TRUE
            /\ UNCHANGED <<nodes, edges, draws>>
       ELSE /\ \E g \in results : nodes' = g.nodes /\ edges' = g.edges /\ draws' = g.draws
            /\ crashed' = FALSE
    /\ op' = "generateNetwork"
    /\ UNCHANGED <<config, tick, passes, arg, input, inputAfter, page>>

Generate == GenerateFrom(generateNetwork(config))

(* every node on one spot (each placement draw 0), any degree draw: every   *)
(* candidate is at distance 0 and is accepted.                              *)
GenerateOnSpot == GenerateFrom(generateNetworkDrawing(config, {0}, {0}, 0..(RandSteps - 1)))

Tick ==
    /\ Running
    /\ tick < MaxTick
    /\ tick' = tick + 1
    /\ \E m \in simulationTick(nodes, config, tick + 1) : Returned(m, "simulationTick", tick + 1)
    /\ UNCHANGED <<config, edges, passes, page>>

(* applyFactCheck with a node id drawn from S *)
FactCheckIn(S) ==
    /\ Running
    /\ \E nodeId \in S :
         IF FactCheckThrows(nodes, nodeId)
         THEN Threw("applyFactCheck", nodeId)
         ELSE \E m \in applyFactCheck(nodes, nodeId) : Returned(m, "applyFactCheck", nodeId)
    /\ UNCHANGED <<config, edges, tick, passes, page>>

(* the id of a node, as a click on a drawn node supplies it *)
FactCheck == FactCheckIn(Ids(nodes))

(* any id, the ids next to the range included *)
FactCheckAnyId == FactCheckIn(-1..Length(nodes))

Campaign ==
    /\ Running
    /\ \E m \in applyAwarenessCampaign(nodes) : Returned(m, "applyAwarenessCampaign", -1)
    /\ UNCHANGED <<config, edges, tick, passes, page>>

Layout ==
    /\ Running
    /\ passes < MaxPasses
    /\ passes' = passes + 1
    /\ Returned(applyForces(nodes, edges, CANVAS_W, CANVAS_H), "applyForces", -1)
    /\ UNCHANGED <<config, edges, tick, page>>

Next == Generate \/ Tick \/ FactCheck \/ Campaign \/ Layout

Spec == Init /\ [][Next]_vars

(* The engine called with any node id *)
NextAnyId == Generate \/ Tick \/ FactCheckAnyId
SpecAnyId == Init /\ [][NextAnyId]_vars

(* Awareness campaigns on a larger population *)
SpecCampaign == InitCampaign /\ [][Campaign]_vars

(* generateNetwork alone, over the network parameters *)
SpecGen == InitGen /\ [][Generate]_vars

(* generateNetwork alone, the nodes on one spot *)
SpecDegree == InitDegree /\ [][GenerateOnSpot]_vars

(* Sequential ticks on a given network *)
SpecGiven == InitGiven /\ [][Tick]_vars

----------------------------------------------------------------------------
(* The page driver (pages/Index).  A render and the state updates queued   *)
(* by one handler are one step; the interval effect runs as a step of its  *)
(* own after the render that changed its dependencies, and until it has    *)
(* run the interval registered before is still the one that fires.         *)

(* the layout loop of initNetwork: applyForces, i times over (50 in the     *)
(* page, MaxPasses here)                                                    *)
RECURSIVE LayoutLoop(_, _, _)
LayoutLoop(laid, e, i) ==
    IF i = 0 THEN laid
    ELSE LayoutLoop(applyForces(laid, e, CANVAS_W, CANVAS_H).upd, e, i - 1)

(* the simulation state of n written back on the laid out nodes *)
RestoreState(laid, n) ==
    [i \in Ids(laid) |->
        [laid[i] EXCEPT !.state = n[i].state,
                        !.infectedAt = n[i].infectedAt,
                        !.connections = n[i].connections]]

(* the networks initNetwork can set, the layout loop run passes times.     *)
(* The placement draws of generateNetwork are 0 here (every node starts on *)
(* one spot), the degree draws are any.                                     *)
InitNetworkResults(cfg, passesRun) ==
    {[nodes |-> RestoreState(LayoutLoop(g.nodes, g.edges, passesRun), g.nodes), edges |-> g.edges] :
        g \in generateNetworkDrawing(cfg, {0}, {0}, 0..(RandSteps - 1))}

(* the newest snapshot is the one cut off *)
PushHistoryDropsNewest(h, stats) ==
    LET newH == Append(h, stats)
    IN  IF Len(newH) > HistoryLimit THEN SubSeq(newH, 1, HistoryLimit) ELSE newH

(* the chart history with one more snapshot *)
PushHistory(h, stats) ==
    LET newH == Append(h, stats)
    IN  IF Len(newH) > HistoryLimit
        THEN SubSeq(newH, Len(newH) - HistoryLimit + 1, Len(newH))
        ELSE newH

(* the dependencies of the interval effect, as the last render has them *)
IntervalDeps == [isRunning |-> isRunning, speed |-> speed, tick |-> tick]

DriverConfigs ==
    [nodeCount : {PageNodes},
     connectionDensity : {MaxDensity},
     spreadProbability : {50},
     recoveryTime : 0..1,
     initialInfected : {1}]

(* the configurations of a long run: the epidemic over at once, or going on *)
HistoryConfigs ==
    [nodeCount : {PageNodes},
     connectionDensity : {MaxDensity},
     spreadProbability : {100},
     recoveryTime : {0, MaxHistoryTick},
     initialInfected : {1}]

(* the networks initNetwork can set under each configuration *)
InitNetworks == [cfg \in DriverConfigs \cup HistoryConfigs |-> InitNetworkResults(cfg, MaxPasses)]

(* The page as mounted: initNetwork has run, the interval effect has run *)
Mounted ==
    /\ \E r \in InitNetworks[config] :
         /\ nodes = r.nodes
         /\ edges = r.edges
         /\ history = <<getStats(r.nodes, 0)>>
    /\ tick = 0
    /\ isRunning = FALSE
    /\ factCheckMode = FALSE
    /\ speed = 1
    /\ interval = [isRunning |-> FALSE, speed |-> 1, tick |-> 0]
    /\ passes = MaxPasses
    /\ op = "initNetwork"
    /\ arg = -1
    /\ input = NoNodes
    /\ inputAfter = NoNodes
    /\ crashed = FALSE
    /\ draws = <<>>

InitDriver == config \in DriverConfigs /\ Mounted

(* Reset *)
initNetwork ==
    /\ \E r \in InitNetworks[config] :
         /\ nodes' = r.nodes
         /\ edges' = r.edges
         /\ history' = <<getStats(r.nodes, 0)>>
    /\ tick' = 0
    /\ isRunning' = FALSE
    /\ factCheckMode' = FALSE
    /\ op' = "initNetwork"
    /\ arg' = -1
    /\ input' = NoNodes
    /\ inputAfter' = NoNodes
    /\ crashed' = FALSE
    /\ draws' = <<>>
    /\ UNCHANGED <<config, passes, speed, interval>>

(* Play / Pause *)
onToggleRun ==
    /\ isRunning' = ~isRunning
    /\ UNCHANGED <<config, nodes, edges, tick, passes, op, arg, input, inputAfter, crashed,
                   draws, speed, history, factCheckMode, interval>>

(* the speed slider moved to another value *)
onSpeedChange ==
    /\ \E v \in (1..MaxSpeed) \ {speed} : speed' = v
    /\ UNCHANGED <<config, nodes, edges, tick, passes, op, arg, input, inputAfter, crashed,
                   draws, isRunning, history, factCheckMode, interval>>

(* the Fact-Check button *)
onFactCheck ==
    /\ factCheckMode' = ~factCheckMode
    /\ UNCHANGED <<config, nodes, edges, tick, passes, op, arg, input, inputAfter, crashed,
                   draws, isRunning, speed, history, interval>>

(* a click on a drawn node; the canvas passes clicks on only in fact-check mode *)
handleNodeClick ==
    /\ factCheckMode
    /\ \E nodeId \in Ids(nodes) :
         \E m \in applyFactCheck(nodes, nodeId) : Returned(m, "applyFactCheck", nodeId)
    /\ factCheckMode' = FALSE
    /\ UNCHANGED <<config, edges, tick, passes, isRunning, speed, history, interval>>

(* the Awareness button *)
handleAwareness ==
    /\ \E m \in applyAwarenessCampaign(nodes) : Returned(m, "applyAwarenessCampaign", -1)
    /\ UNCHANGED <<config, edges, tick, passes, page>>

(* the interval effect: its dependencies changed, so the interval of the    *)
(* last run is cleared and, if the run is started, a new one is registered  *)
IntervalEffect ==
    /\ interval # IntervalDeps
    /\ interval' = IntervalDeps
    /\ UNCHANGED <<config, nodes, edges, tick, passes, op, arg, input, inputAfter, crashed,
                   draws, isRunning, speed, history, factCheckMode>>

(* the registered interval fires: its callback, which holds the tick of the *)
(* render that registered it; the tick counter is below maxTick             *)
IntervalCallbackBelow(maxTick) ==
    /\ interval.isRunning
    /\ tick < maxTick
    /\ tick' = tick + 1
    /\ \E m \in simulationTick(nodes, config, interval.tick + 1) :
         LET stats == getStats(m.upd, interval.tick + 1)
         IN  /\ Returned(m, "simulationTick", interval.tick + 1)
             /\ history' = PushHistory(history, stats)
             /\ isRunning' = IF stats.infected = 0 THEN FALSE ELSE isRunning
    /\ UNCHANGED <<config, edges, passes, speed, factCheckMode, interval>>

IntervalCallback == IntervalCallbackBelow(MaxPageTick)

NextDriver ==
    \/ initNetwork
    \/ onToggleRun
    \/ onSpeedChange
    \/ onFactCheck
    \/ handleNodeClick
    \/ handleAwareness
    \/ IntervalEffect
    \/ IntervalCallback

SpecDriver == InitDriver /\ [][NextDriver]_vars

(* The timer and the effects of React, scheduled fairly: a registered       *)
(* interval goes on firing, an effect whose dependencies changed runs.      *)
SpecDriverFair ==
    /\ SpecDriver
    /\ WF_vars(IntervalCallback)
    /\ WF_vars(IntervalEffect)

(* A long run of the page: Play, Pause and Reset only, and the interval     *)
(* effect runs before the interval fires again.                             *)
InitHistory == config \in HistoryConfigs /\ Mounted

IntervalCallbackOnTime == interval = IntervalDeps /\ IntervalCallbackBelow(MaxHistoryTick)

NextHistory == initNetwork \/ onToggleRun \/ IntervalEffect \/ IntervalCallbackOnTime

SpecHistory == InitHistory /\ [][NextHistory]_vars

----------------------------------------------------------------------------
(* Properties *)

Calls == {"simulationTick", "applyFactCheck", "applyAwarenessCampaign", "applyForces"}
EpidemicCalls == {"simulationTick", "applyFactCheck", "applyAwarenessCampaign"}

(* The last call returned a node array (nodes), computed from input. *)
ReturnedFrom(names) == op \in names /\ ~crashed

(* A snapshot is held: generateNetwork returned, and whatever was called    *)
(* later, nodes is the last array returned.                                 *)
HasSnapshot == op # "none" /\ ~(op = "generateNetwork" /\ crashed)

(* C1: count conservation.  For the snapshot generateNetwork returns and    *)
(* every snapshot reached from it by simulationTick, applyFactCheck (valid  *)
(* id) and applyAwarenessCampaign, the four counts of getStats add up to    *)
(* the length of the node array, which is nodeCount, and the tick field is  *)
(* the tick argument.                                                       *)
C1_CountConservation ==
    HasSnapshot =>
        LET stats == getStats(nodes, tick) IN
        /\ stats.healthy + stats.infected + stats.recovered + stats.aware = Length(nodes)
        /\ Length(nodes) = config.nodeCount
        /\ stats.tick = tick

C1_Witness ==
    /\ ReturnedFrom(EpidemicCalls)
    /\ tick >= 1
    /\ getStats(nodes, tick).infected >= 1
    /\ getStats(nodes, tick).recovered >= 1
    /\ getStats(nodes, tick).aware >= 1

(* The changes of state of one node the state graph allows in one call *)
LegalChange(before, after) ==
    \/ after = before
    \/ before = "healthy" /\ after = "infected"
    \/ before = "infected" /\ after = "recovered"
    \/ before = "healthy" /\ after = "aware"

(* C2: monotonic state graph.  With recoveryTime >= 1, one call of          *)
(* simulationTick, applyFactCheck or applyAwarenessCampaign changes a       *)
(* node's state only healthy -> infected, infected -> recovered or healthy  *)
(* -> aware: recovered and aware nodes keep their state, and no node goes   *)
(* healthy -> recovered or infected -> aware.                               *)
C2_MonotonicStateGraph ==
    (ReturnedFrom(EpidemicCalls) /\ config.recoveryTime >= 1) =>
        \A i \in Ids(input) : LegalChange(input[i].state, nodes[i].state)

C2_Witness ==
    /\ ReturnedFrom({"simulationTick"})
    /\ config.recoveryTime >= 1
    /\ \E i \in Ids(input) : input[i].state = "healthy" /\ nodes[i].state = "infected"
    /\ \E i \in Ids(input) : input[i].state = "infected" /\ nodes[i].state = "recovered"
    /\ \E i \in Ids(input) : input[i].state = "aware"

(* C3: snapshots are not altered after they are returned.  Each call of     *)
(* simulationTick, applyFactCheck, applyAwarenessCampaign and applyForces   *)
(* leaves every node of its input array, in every field, as it was before   *)
(* the call.                                                                *)
C3_InputUnaltered ==
    op \in Calls => inputAfter = input

C3_Witness ==
    /\ ReturnedFrom({"simulationTick"})
    /\ \E i \in Ids(input) : nodes[i].state # input[i].state
    /\ \E i \in Ids(input) : nodes[i].infectedAt # input[i].infectedAt
    /\ inputAfter = input

(* C4: recovery timing.  With ticks 1, 2, 3, ... a simulationTick call      *)
(* whose tick is less than T + recoveryTime never changes a node whose      *)
(* infectedAt is T from infected to recovered.                              *)
C4_RecoveryTiming ==
    ReturnedFrom({"simulationTick"}) =>
        \A i \in Ids(input) :
            (input[i].state = "infected" /\ nodes[i].state = "recovered")
                => arg >= input[i].infectedAt + config.recoveryTime

C4_Witness ==
    /\ ReturnedFrom({"simulationTick"})
    /\ config.recoveryTime >= 1
    /\ \E i \in Ids(input) :
          /\ input[i].state = "infected" /\ nodes[i].state = "recovered"
          /\ input[i].infectedAt >= 1
          /\ arg = input[i].infectedAt + config.recoveryTime

(* C5: edge symmetry.  In the node array generateNetwork returns and in     *)
(* every snapshot reached from it by ticks, interventions and layout        *)
(* passes, j is in connections[i] if and only if i is in connections[j].    *)
C5_EdgeSymmetry ==
    HasSnapshot =>
        \A i, j \in Ids(nodes) :
            Includes(nodes[i].connections, j) <=> Includes(nodes[j].connections, i)

C5_Witness ==
    /\ ReturnedFrom(Calls)
    /\ tick >= 1
    /\ passes >= 1
    /\ \E i, j \in Ids(nodes) : Len(nodes[i].connections) = 2 /\ Len(nodes[j].connections) = 1

(* C6 as stated: for every nodeCount >= 1 and every connectionDensity,      *)
(* every node generateNetwork returns has at least one connection.          *)
C6_MinDegreeFromOne ==
    (op = "generateNetwork" /\ ~crashed /\ config.nodeCount >= 1) =>
        \A i \in Ids(nodes) : Len(nodes[i].connections) >= 1

(* C6, amended: for every nodeCount >= 2 and every connectionDensity,       *)
(* every node generateNetwork returns has at least one connection,          *)
(* whatever the random draws are.                                           *)
C6_MinDegree ==
    (op = "generateNetwork" /\ ~crashed /\ config.nodeCount >= 2) =>
        \A i \in Ids(nodes) : Len(nodes[i].connections) >= 1

C6_Witness ==
    /\ op = "generateNetwork" /\ ~crashed
    /\ config.nodeCount = MaxNodes
    /\ config.connectionDensity = 0
    /\ \E i \in Ids(nodes) : Len(nodes[i].connections) = 1
    /\ \E i, j \in Ids(nodes) : i # j /\ ~Includes(nodes[i].connections, j)

(* C7: applyFactCheck with a node id outside 0..N-1 is a no-op: it returns  *)
(* a node array equal to its input and does not throw.                      *)
C7_OutOfRangeIsNoOp ==
    (op = "applyFactCheck" /\ arg \notin Ids(input)) =>
        (~crashed /\ nodes = input)

(* C8: generateNetwork with initialInfected > nodeCount does not crash: it  *)
(* returns a network of nodeCount nodes, all of them infected with          *)
(* infectedAt = 0.                                                          *)
C8_SeedsClamped ==
    (op = "generateNetwork" /\ config.initialInfected > config.nodeCount) =>
        /\ ~crashed
        /\ Length(nodes) = config.nodeCount
        /\ \A i \in Ids(nodes) : nodes[i].state = "infected" /\ nodes[i].infectedAt = 0

(* C9: fact-check target result.  For a valid target id, the target is      *)
(* recovered in the array applyFactCheck returns if it was infected in the  *)
(* input, whatever its infectedAt and the recoveryTime, and has its input   *)
(* state otherwise.                                                         *)
C9_FactCheckTarget ==
    ReturnedFrom({"applyFactCheck"}) =>
        nodes[arg].state = IF input[arg].state = "infected" THEN "recovered" ELSE input[arg].state

C9_Witness ==
    /\ ReturnedFrom({"applyFactCheck"})
    /\ input[arg].state = "infected"
    /\ nodes[arg].state = "recovered"
    /\ tick < input[arg].infectedAt + config.recoveryTime
    /\ \E i \in Ids(input) : input[i].state = "healthy" /\ nodes[i].state = "aware"

(* the least c with h <= 5 * c *)
Fifth(h) == CHOOSE c \in 0..h : h <= 5 * c /\ (c = 0 \/ h > 5 * (c - 1))

(* C10: awareness campaign size.  With h healthy nodes in the input,        *)
(* exactly ceil(0.2 * h) of them are aware in the array                     *)
(* applyAwarenessCampaign returns and every other node keeps its state;     *)
(* with h = 0 the array returned equals the input.                          *)
C10_CampaignSize ==
    ReturnedFrom({"applyAwarenessCampaign"}) =>
        LET healthy == {i \in Ids(input) : input[i].state = "healthy"}
            selected == {i \in healthy : nodes[i].state = "aware"}
        IN  /\ Cardinality(selected) = Fifth(Cardinality(healthy))
            /\ \A i \in Ids(input) \ selected : nodes[i].state = input[i].state
            /\ healthy = {} => nodes = input

C10_Witness ==
    /\ ReturnedFrom({"applyAwarenessCampaign"})
    /\ Cardinality({i \in Ids(input) : input[i].state = "healthy"}) = MaxCampaignNodes
    /\ Cardinality({i \in Ids(input) : nodes[i].state = "aware"}) = 2

(* C11: certain transmission.  With spreadProbability = 1, after one        *)
(* simulationTick call every node that was healthy in the input and is a    *)
(* direct neighbor of a node infected in the input is infected in the       *)
(* output, with infectedAt equal to the tick argument.                      *)
C11_CertainTransmission ==
    (ReturnedFrom({"simulationTick"}) /\ config.spreadProbability = 100) =>
        \A j \in Ids(input) :
            (/\ input[j].state = "healthy"
             /\ \E i \in Ids(input) : input[i].state = "infected" /\ Includes(input[i].connections, j))
                => (nodes[j].state = "infected" /\ nodes[j].infectedAt = arg)

(* C12: recovery is reached on time.  With ticks 1, 2, 3, ... and           *)
(* recoveryTime >= 1, a node whose infectedAt is T is recovered in the      *)
(* snapshot the tick T + recoveryTime produces and in every later           *)
(* snapshot, in the runs without interventions and in the runs with them.   *)
C12_RecoveredOnTime ==
    (HasSnapshot /\ config.recoveryTime >= 1) =>
        \A i \in Ids(nodes) :
            (nodes[i].infectedAt >= 0 /\ tick >= nodes[i].infectedAt + config.recoveryTime)
                => nodes[i].state = "recovered"

C12_Witness ==
    /\ ReturnedFrom({"simulationTick"})
    /\ config.recoveryTime = 1
    /\ tick = 2
    /\ \E i \in Ids(nodes) :
          /\ nodes[i].infectedAt = 0
          /\ input[i].state = "recovered" /\ nodes[i].state = "recovered"
    /\ \E i \in Ids(nodes) :
          /\ nodes[i].infectedAt = 1
          /\ input[i].state = "infected" /\ nodes[i].state = "recovered"

(* C13: no same-tick recovery.  For every recoveryTime >= 0 and every       *)
(* spreadProbability, a node that is healthy in the input of a              *)
(* simulationTick call and becomes infected during the call (its            *)
(* infectedAt is set to the tick) is infected, not recovered, in the        *)
(* snapshot the call returns.                                               *)
C13_NoSameTickRecovery ==
    (ReturnedFrom({"simulationTick"}) /\ config.recoveryTime >= 0) =>
        \A i \in Ids(input) :
            (input[i].state = "healthy" /\ nodes[i].infectedAt = arg)
                => nodes[i].state = "infected"

(* C15: seed selection.  For every config with 0 <= initialInfected <=      *)
(* nodeCount, generateNetwork returns a node array in which exactly         *)
(* initialInfected distinct nodes are infected with infectedAt = 0, and     *)
(* every other node is healthy with infectedAt = -1.                        *)
C15_SeedSelection ==
    (op = "generateNetwork" /\ 0 <= config.initialInfected
                            /\ config.initialInfected <= config.nodeCount) =>
        LET seeds == {i \in Ids(nodes) : nodes[i].state = "infected"} IN
        /\ ~crashed
        /\ Length(nodes) = config.nodeCount
        /\ Cardinality(seeds) = config.initialInfected
        /\ \A i \in seeds : nodes[i].infectedAt = 0
        /\ \A i \in Ids(nodes) \ seeds : nodes[i].state = "healthy" /\ nodes[i].infectedAt = -1

C15_Witness ==
    /\ op = "generateNetwork" /\ ~crashed
    /\ config.nodeCount = MaxNodes
    /\ config.initialInfected = MaxNodes - 1
    /\ nodes[0].state = "healthy" /\ nodes[0].infectedAt = -1
    /\ \A i \in Ids(nodes) \ {0} : nodes[i].state = "infected" /\ nodes[i].infectedAt = 0

(* A node became infected during the last simulationTick call. *)
InfectedInCall(j) == input[j].state = "healthy" /\ nodes[j].infectedAt = arg

(* C16 as stated: within one simulationTick call only the nodes infected    *)
(* in the input snapshot transmit, so every node that becomes infected      *)
(* during the call has a neighbor that is infected in the input.            *)
C16_SourcesFromInput ==
    ReturnedFrom({"simulationTick"}) =>
        \A j \in Ids(input) :
            InfectedInCall(j) =>
                \E i \in Ids(input) : Includes(input[j].connections, i) /\ input[i].state = "infected"

(* Node i can have been infected when the loop visited it: it is infected   *)
(* in the input, or it became infected during the call and has a neighbor   *)
(* of lower id of which the same is true.                                   *)
RECURSIVE InfectedWhenVisited(_)
InfectedWhenVisited(i) ==
    \/ input[i].state = "infected"
    \/ /\ InfectedInCall(i)
       /\ \E k \in 0..(i - 1) : Includes(input[i].connections, k) /\ InfectedWhenVisited(k)

(* C16, amended: within one simulationTick call only the nodes that are     *)
(* infected in the input snapshot, and the nodes that become infected       *)
(* during the call through a neighbor of lower id, transmit; a node that    *)
(* is healthy in the input and has no such neighbor never transmits during  *)
(* that call, even if it becomes infected during the call.  So every node   *)
(* that becomes infected during the call has a neighbor of one of the two   *)
(* kinds.                                                                   *)
C16_SourcesInIdOrder ==
    ReturnedFrom({"simulationTick"}) =>
        \A j \in Ids(input) :
            InfectedInCall(j) =>
                \E i \in Ids(input) : Includes(input[j].connections, i) /\ InfectedWhenVisited(i)

(* a node infected through a neighbor that was healthy in the input and     *)
(* was itself infected through a neighbor of lower id                       *)
C16_Witness ==
    /\ ReturnedFrom({"simulationTick"})
    /\ \E j \in Ids(input) :
          /\ InfectedInCall(j)
          /\ \A i \in Ids(input) : Includes(input[j].connections, i) => input[i].state = "healthy"
          /\ \E i \in Ids(input) : Includes(input[j].connections, i) /\ InfectedWhenVisited(i)

(* The input of the last call is the path 0-1-2 with node s alone infected. *)
PathWithSeed(s) ==
    /\ Ids(input) = 0..2
    /\ {input[0].connections, input[2].connections} = {<<1>>}
    /\ input[1].connections \in {<<0, 2>>, <<2, 0>>}
    /\ \A i \in Ids(input) : input[i].state = IF i = s THEN "infected" ELSE "healthy"

(* C17: same-tick cascade in id order.  Within one simulationTick call the  *)
(* nodes are visited in ascending id order and neighbor states are read     *)
(* from the working copy, so with spreadProbability = 1 a healthy node      *)
(* becomes infected in the call exactly if it has a neighbor that is        *)
(* infected when visited, the nodes infected earlier in the call by a       *)
(* lower-id node included.  On the path 0-1-2 with only node 0 infected,    *)
(* nodes 1 and 2 are both infected after one tick; with only node 2         *)
(* infected, only node 1 is infected after one tick.                        *)
C17_CascadeInIdOrder ==
    (ReturnedFrom({"simulationTick"}) /\ config.spreadProbability = 100) =>
        /\ \A j \in Ids(input) :
              input[j].state = "healthy" =>
                  (InfectedInCall(j) <=>
                      \E i \in Ids(input) : Includes(input[j].connections, i) /\ InfectedWhenVisited(i))
        /\ (tick = 1 /\ PathWithSeed(0)) =>
              (nodes[1].state = "infected" /\ nodes[2].state = "infected")
        /\ (tick = 1 /\ PathWithSeed(2)) =>
              (nodes[1].state = "infected" /\ nodes[0].state = "healthy")

(* C18: immune nodes take no part in transmission.  A simulationTick call   *)
(* changes a node from healthy to infected only if one of its neighbors is  *)
(* infected at the moment that neighbor is visited; a healthy node whose    *)
(* neighbors are all recovered, aware or healthy throughout the call stays  *)
(* healthy; recovered and aware nodes are returned as they were; and when   *)
(* no node is infected in the input the returned snapshot equals the input. *)
C18_ImmuneTakeNoPart ==
    ReturnedFrom({"simulationTick"}) =>
        /\ \A j \in Ids(input) :
              (input[j].state = "healthy" /\ nodes[j].state # "healthy") =>
                  /\ InfectedInCall(j)
                  /\ \E i \in Ids(input) : Includes(input[j].connections, i) /\ InfectedWhenVisited(i)
        /\ \A j \in Ids(input) :
              (/\ input[j].state = "healthy"
               /\ \A i \in Ids(input) :
                     Includes(input[j].connections, i) =>
                         (input[i].state # "infected" /\ nodes[i].state # "infected"
                                                     /\ ~InfectedInCall(i)))
                  => nodes[j] = input[j]
        /\ \A j \in Ids(input) : input[j].state \in {"recovered", "aware"} => nodes[j] = input[j]
        /\ (\A i \in Ids(input) : input[i].state # "infected") => nodes = input

(* with certain transmission, a healthy node next to a recovered node stays *)
(* healthy, and an aware node is returned as it was                         *)
C18_Witness ==
    /\ ReturnedFrom({"simulationTick"})
    /\ config.spreadProbability = 100
    /\ \E j \in Ids(input) :
          /\ input[j].state = "healthy" /\ nodes[j].state = "healthy"
          /\ \E i \in Ids(input) : Includes(input[j].connections, i) /\ input[i].state = "recovered"
    /\ \E i \in Ids(input) : input[i].state = "aware" /\ nodes[i].state = "aware"

(* The edges node i added in its own turn of the generator's loop *)
Initiated(i) == Cardinality({k \in 1..Len(edges) : edges[k].source = i})

(* max(1, round(density + u)) for u = 2 * k / RandSteps - 1: Math.round     *)
(* rounds to the nearest integer, a half upwards.                           *)
RoundedTarget(density, k) == Max(1, density + ((4 * k - RandSteps) \div (2 * RandSteps)))

(* C19: per-node target degree.  In generateNetwork the target degree of    *)
(* each node is max(1, round(connectionDensity + u)) for the perturbation   *)
(* u drawn, so for an integer connectionDensity d >= 2 the target takes     *)
(* each of d-1, d and d+1.  Node 0, visited first with every other node a   *)
(* candidate at distance 0, adds edges until its target or the number of    *)
(* candidates is reached, so the edges it adds tell its target.             *)
C19_TargetIsRounded ==
    (op = "generateNetwork" /\ ~crashed /\ \A i \in Ids(nodes) : Dist2(nodes, 0, i) = 0) =>
        Initiated(0) = Min(RoundedTarget(config.connectionDensity, draws[1]), Length(nodes) - 1)

(* the two ends of the k-th edge *)
Ends(k) == {edges[k].source, edges[k].target}

(* C20: edge list well-formedness.  In the output of generateNetwork the    *)
(* edge list has no self-loop, no unordered pair {i, j} appears in it more  *)
(* than once in either orientation, no connections list contains an id      *)
(* twice, and {i, j} is in the edge list if and only if j is in             *)
(* connections[i].                                                          *)
C20_EdgeListWellFormed ==
    (op = "generateNetwork" /\ ~crashed) =>
        /\ \A k \in 1..Len(edges) : edges[k].source # edges[k].target
        /\ \A k, l \in 1..Len(edges) : k # l => Ends(k) # Ends(l)
        /\ \A i \in Ids(nodes) :
              \A a, b \in 1..Len(nodes[i].connections) :
                  a # b => nodes[i].connections[a] # nodes[i].connections[b]
        /\ \A i, j \in Ids(nodes) :
              (\E k \in 1..Len(edges) : Ends(k) = {i, j} /\ i # j)
                  <=> Includes(nodes[i].connections, j)

(* a triangle, one of its edges added by the node of higher id, after a     *)
(* node skipped a candidate it was connected to already                     *)
C20_Witness ==
    /\ op = "generateNetwork" /\ ~crashed
    /\ config.nodeCount = MaxNodes
    /\ Len(edges) = MaxNodes
    /\ \E k \in 1..Len(edges) : edges[k].source > edges[k].target
    /\ \A i \in Ids(nodes) : Len(nodes[i].connections) = MaxNodes - 1

(* C21: infectedAt is written once.  Over simulationTick (ticks 1, 2, 3,    *)
(* ...), applyFactCheck and applyAwarenessCampaign calls, a call leaves an  *)
(* infectedAt that is not -1 as it is, and the only value a call writes is  *)
(* its tick argument, to a node that was healthy in its input and is not    *)
(* healthy in its output; seeds carry 0 from generateNetwork.               *)
C21_InfectedAtWrittenOnce ==
    /\ (op = "generateNetwork" /\ ~crashed) =>
          \A i \in Ids(nodes) : nodes[i].infectedAt = IF nodes[i].state = "infected" THEN 0 ELSE -1
    /\ ReturnedFrom(EpidemicCalls) =>
          \A i \in Ids(input) :
              /\ input[i].infectedAt # -1 => nodes[i].infectedAt = input[i].infectedAt
              /\ nodes[i].infectedAt # input[i].infectedAt =>
                    /\ op = "simulationTick" /\ nodes[i].infectedAt = arg
                    /\ input[i].state = "healthy" /\ nodes[i].state \in {"infected", "recovered"}
              /\ (input[i].state = "healthy" /\ nodes[i].state = "infected") =>
                    nodes[i].infectedAt = arg

C21_Witness ==
    /\ ReturnedFrom({"simulationTick"})
    /\ arg = 2
    /\ \E i \in Ids(input) : input[i].infectedAt = 0 /\ nodes[i].infectedAt = 0 /\ nodes[i].state = "recovered"
    /\ \E i \in Ids(input) : input[i].infectedAt = 1 /\ nodes[i].infectedAt = 1
    /\ \E i \in Ids(input) : input[i].infectedAt = -1 /\ nodes[i].infectedAt = 2

(* C22: fixed topology and identity.  simulationTick, applyFactCheck and    *)
(* applyAwarenessCampaign each return an array of the length of their       *)
(* input in which the node at index k has id = k and the id, x, y and       *)
(* connections of the input node at index k; only state and infectedAt      *)
(* may differ.                                                              *)
C22_FixedTopology ==
    ReturnedFrom(EpidemicCalls) =>
        /\ Ids(nodes) = Ids(input)
        /\ Ids(nodes) = 0..(Length(input) - 1)
        /\ \A k \in Ids(nodes) :
              /\ nodes[k].id = k
              /\ nodes[k] = [input[k] EXCEPT !.state = nodes[k].state,
                                             !.infectedAt = nodes[k].infectedAt]

(* a campaign on nodes at different places and of different degrees made a  *)
(* node other than the first aware                                          *)
C22_Witness ==
    /\ ReturnedFrom({"applyAwarenessCampaign"})
    /\ tick >= 1
    /\ \E i, j \in Ids(nodes) :
          /\ nodes[i].x # nodes[j].x
          /\ Len(nodes[i].connections) # Len(nodes[j].connections)
          /\ i < j
          /\ input[i].state = "healthy" /\ nodes[i].state = "healthy"
          /\ input[j].state = "healthy" /\ nodes[j].state = "aware"

(* C23: fact-check locality.  For a valid target id, applyFactCheck changes *)
(* the state of no node other than the target and the target's direct       *)
(* neighbors; the target changes only from infected to recovered, a         *)
(* neighbor changes only if it was healthy in the input and then only to    *)
(* aware, and infectedAt of every node is unchanged.  (That each healthy    *)
(* neighbor may or may not change is what C23_Witness reaches.)             *)
C23_FactCheckLocality ==
    ReturnedFrom({"applyFactCheck"}) =>
        \A i \in Ids(input) :
            /\ nodes[i].infectedAt = input[i].infectedAt
            /\ nodes[i].state # input[i].state =>
                  \/ i = arg /\ input[i].state = "infected" /\ nodes[i].state = "recovered"
                  \/ /\ Includes(input[arg].connections, i)
                     /\ input[i].state = "healthy" /\ nodes[i].state = "aware"

(* of two healthy neighbors of an infected target one became aware and the  *)
(* other did not                                                            *)
C23_Witness ==
    /\ ReturnedFrom({"applyFactCheck"})
    /\ input[arg].state = "infected" /\ nodes[arg].state = "recovered"
    /\ \E i, j \in Ids(input) :
          /\ i # j
          /\ Includes(input[arg].connections, i) /\ Includes(input[arg].connections, j)
          /\ input[i].state = "healthy" /\ nodes[i].state = "aware"
          /\ input[j].state = "healthy" /\ nodes[j].state = "healthy"

(* C26: state/infectedAt consistency.  In the output of generateNetwork and *)
(* in every snapshot reached from it by simulationTick (ticks 1, 2, 3,      *)
(* ...), applyFactCheck and applyAwarenessCampaign calls, a node is healthy *)
(* or aware if and only if its infectedAt is -1, and infected or recovered  *)
(* if and only if its infectedAt is at least 0 and at most the latest tick. *)
C26_StateMatchesInfectedAt ==
    HasSnapshot =>
        \A i \in Ids(nodes) :
            /\ nodes[i].state \in {"healthy", "aware"} <=> nodes[i].infectedAt = -1
            /\ nodes[i].state \in {"infected", "recovered"}
                  <=> (0 <= nodes[i].infectedAt /\ nodes[i].infectedAt <= tick)

(* an aware node, a node infected in the latest tick and a node infected    *)
(* earlier and recovered since                                              *)
C26_Witness ==
    /\ ReturnedFrom(EpidemicCalls)
    /\ tick = MaxTick
    /\ \E i \in Ids(nodes) : nodes[i].state = "aware" /\ nodes[i].infectedAt = -1
    /\ \E i \in Ids(nodes) : nodes[i].state = "infected" /\ nodes[i].infectedAt = tick
    /\ \E i \in Ids(nodes) : nodes[i].state = "recovered" /\ nodes[i].infectedAt < tick

----------------------------------------------------------------------------
(* The page driver *)

(* a step of the page that applies a tick: only the interval callback       *)
(* advances the tick counter                                                *)
TickApplied == tick' = tick + 1

Newest(h) == h[Len(h)]

(* C24: in the page driver, whatever the order of timer firings, runs of    *)
(* the interval effect and user actions, every timer firing calls           *)
(* simulationTick on the snapshot the page holds at that moment, with the   *)
(* tick counter's value after the firing's increment as tick argument, and  *)
(* the snapshot it appends to history carries the tick that follows the one *)
(* of the snapshot before it (so no tick number is used twice).             *)
C24_TickSequencing ==
    [][TickApplied =>
         /\ op' = "simulationTick"
         /\ input' = nodes
         /\ arg' = tick'
         /\ Newest(history').tick = arg'
         /\ Newest(history').tick = Newest(history).tick + 1]_vars

(* the run has been stopped by a tick that left no infected node *)
DiedOut == ~isRunning /\ Newest(history).infected = 0

(* C25: in the page driver, with the timer and the effects scheduled        *)
(* fairly, a started run does not go on for ever: it is stopped, by a tick  *)
(* whose snapshot has no infected node or by the user (or the model's tick  *)
(* bound is reached); the tick that produces a snapshot with no infected    *)
(* node sets isRunning to false; and after such a snapshot no tick is       *)
(* applied until the run is started again.                                  *)
C25_DiesOutAndStops ==
    /\ isRunning ~> (DiedOut \/ ~isRunning \/ tick = MaxPageTick)
    /\ [][TickApplied /\ Newest(history').infected = 0 => ~isRunning']_vars
    /\ [][TickApplied /\ Newest(history).infected = 0 => isRunning]_vars

(* h with the snapshot stats put at its end, its oldest snapshot dropped   *)
(* if it was full                                                           *)
Shifted(h, stats) ==
    IF Len(h) < HistoryLimit THEN Append(h, stats) ELSE Append(Tail(h), stats)

(* C27: in the page driver, the history after initNetwork (mount or Reset)  *)
(* is the one snapshot of the new network for tick 0; every applied tick    *)
(* puts exactly one snapshot, the stats of the array it returned under its  *)
(* tick argument, at the end of history, and nothing else changes history;  *)
(* history never holds more than 200 snapshots, and a tick applied to a     *)
(* full history drops its oldest snapshot, so that history is always the    *)
(* most recent snapshots in the order in which their ticks were applied.    *)
C27_BoundedHistory ==
    /\ [](Len(history) <= HistoryLimit)
    /\ [](op = "initNetwork" => history = <<getStats(nodes, 0)>>)
    /\ [][TickApplied => history' = Shifted(history, getStats(nodes', arg'))]_vars
    /\ [][history' # history => TickApplied \/ op' = "initNetwork"]_vars

(* 201 ticks have been applied: history is full, the snapshots of ticks 0   *)
(* and 1 have been dropped                                                  *)
C27_Witness ==
    /\ tick = HistoryLimit + 1
    /\ Len(history) = HistoryLimit
    /\ history[1].tick = 2
    /\ Newest(history).tick = HistoryLimit + 1

====
